---- MODULE Spec2Model ----
(***************************************************************************)
(* Model of the fashion recommendation engine (lib/core, lib/utils).       *)
(*                                                                         *)
(* Strings are sequences of one-character strings, so that normalizeText   *)
(* is computed character by character.  An optional field (price?, brand?, *)
(* priceRange?, a nullable reference) is a sequence of length 0 or 1.      *)
(* Numbers that the code holds as fractions (match ratios, scores) are     *)
(* integers over a fixed denominator: a match component m is held as       *)
(* m * MatchScale and a score s as s * ScoreScale.                         *)
(***************************************************************************)
EXTENDS Integers, Sequences, FiniteSets, TLC

VARIABLES styleProfile, boardData, analyzed, catalog, lastCall, argBoard, argLimit,
          threw, retProfile, retRecs, retGaps, demoPc,
          textArg, textRet, wait, timeout, timers, now, calls, invoked

vars == <<styleProfile, boardData, analyzed, catalog, lastCall, argBoard, argLimit,
          threw, retProfile, retRecs, retGaps, demoPc,
          textArg, textRet, wait, timeout, timers, now, calls, invoked>>

\* The engine and the demo: everything but the state of the lib/utils helpers.
engineVars == <<styleProfile, boardData, analyzed, catalog, argBoard, argLimit,
                threw, retProfile, retRecs, retGaps, demoPc>>

\* normalizeText's argument and result; a debounced function's closure
\* (wait, timeout), the runtime's pending timers and clock, and the calls made
\* and the invocations of func so far.
utilVars == <<textArg, textRet, wait, timeout, timers, now, calls, invoked>>

\* No helper of lib/utils is in use.
utilIdle ==
    /\ textArg = <<>>
    /\ textRet = <<>>
    /\ wait = 0
    /\ timeout = <<>>
    /\ timers = {}
    /\ now = 0
    /\ calls = <<>>
    /\ invoked = <<>>

----------------------------------------------------------------------------
(* Bounds *)

MaxPins == 2
MaxCatalog == 2
MaxBoardPins == 6
MaxLimit == 1
MaxItemTags == 3

----------------------------------------------------------------------------
(* Strings *)

LowerLetters ==
    {"a","b","c","d","e","f","g","h","i","j","k","l","m",
     "n","o","p","q","r","s","t","u","v","w","x","y","z"}

Digits == {"0","1","2","3","4","5","6","7","8","9"}

IsSpace(c) == c \in {" ", "\t"}

ToLowerChar(c) ==
    CASE c = "A" -> "a"
      [] c = "B" -> "b"
      [] c = "C" -> "c"
      [] OTHER -> c

toLowerCase(s) == [i \in 1..Len(s) |-> ToLowerChar(s[i])]

RECURSIVE trimStart(_)
trimStart(s) ==
    IF s = <<>> THEN s
    ELSE IF IsSpace(Head(s)) THEN trimStart(Tail(s)) ELSE s

RECURSIVE trimEnd(_)
trimEnd(s) ==
    IF s = <<>> THEN s
    ELSE IF IsSpace(s[Len(s)]) THEN trimEnd(SubSeq(s, 1, Len(s) - 1)) ELSE s

trim(s) == trimEnd(trimStart(s))

\* .replace(/[^a-z0-9\s-]/g, '')
stripSpecial(s) ==
    SelectSeq(s, LAMBDA c : c \in LowerLetters \/ c \in Digits \/ IsSpace(c) \/ c = "-")

\* .replace(/\s+/g, ' ')
RECURSIVE collapseSpaces(_)
collapseSpaces(s) ==
    IF s = <<>> THEN s
    ELSE IF IsSpace(Head(s))
         THEN <<" ">> \o collapseSpaces(trimStart(Tail(s)))
         ELSE <<Head(s)>> \o collapseSpaces(Tail(s))

normalizeText(text) == collapseSpaces(stripSpecial(trim(toLowerCase(text))))

----------------------------------------------------------------------------
(* Arrays *)

includes(arr, x) == \E i \in 1..Len(arr) : arr[i] = x

slice0(arr, n) ==
    LET len == Len(arr)
        end == IF n < 0 THEN (IF len + n < 0 THEN 0 ELSE len + n)
               ELSE (IF n > len THEN len ELSE n)
    IN  SubSeq(arr, 1, end)

RECURSIVE concatAll(_)
concatAll(ss) == IF ss = <<>> THEN <<>> ELSE Head(ss) \o concatAll(Tail(ss))

\* Array.prototype.sort with a comparator (a, b) => key(b) - key(a): descending
\* by key and stable (ECMAScript 2019; the project requires Node 18+).
\* keys[i] is the comparator's key of arr[i]; the indices are sorted.
\* insertDesc with equal keys put in reverse order (an unstable sort)
RECURSIVE insertDesc_tiesReversed(_, _, _)
insertDesc_tiesReversed(sorted, x, keys) ==
    IF sorted = <<>> THEN <<x>>
    ELSE IF keys[x] >= keys[Head(sorted)]
         THEN <<x>> \o sorted
         ELSE <<Head(sorted)>> \o insertDesc_tiesReversed(Tail(sorted), x, keys)

RECURSIVE insertDesc(_, _, _)
insertDesc(sorted, x, keys) ==
    IF sorted = <<>> THEN <<x>>
    ELSE IF keys[x] > keys[Head(sorted)]
         THEN <<x>> \o sorted
         ELSE <<Head(sorted)>> \o insertDesc(Tail(sorted), x, keys)

RECURSIVE sortedIndices(_, _)
sortedIndices(n, keys) ==
    IF n = 0 THEN <<>>
    ELSE insertDesc(sortedIndices(n - 1, keys), n, keys)

sortDesc(arr, keys) ==
    LET idx == sortedIndices(Len(arr), keys)
    IN  [i \in 1..Len(arr) |-> arr[idx[i]]]

RECURSIVE minOf(_)
minOf(arr) ==
    IF Len(arr) = 1 THEN arr[1]
    ELSE LET m == minOf(Tail(arr)) IN IF arr[1] < m THEN arr[1] ELSE m

RECURSIVE maxOf(_)
maxOf(arr) ==
    IF Len(arr) = 1 THEN arr[1]
    ELSE LET m == maxOf(Tail(arr)) IN IF arr[1] > m THEN arr[1] ELSE m

----------------------------------------------------------------------------
(* Program constants *)

TopColors == 5
TopStyles == 8
TopCategories == 3
TopBrands == 5
DefaultLimit == 10

ColorWeight == 30
StyleWeight == 40
CategoryWeight == 15
BrandWeight == 10
PriceWeight == 5

----------------------------------------------------------------------------
(* Number representation *)

RECURSIVE gcd(_, _)
gcd(a, b) == IF b = 0 THEN a ELSE gcd(b, a % b)

RECURSIVE lcmUpTo(_)
lcmUpTo(n) == IF n <= 1 THEN 1 ELSE LET l == lcmUpTo(n - 1) IN (l * n) \div gcd(l, n)

\* A match component m (0.5, 1 or matches/length) is held as m * MatchScale.
MatchScale == 2 * lcmUpTo(MaxItemTags)
Half == MatchScale \div 2
One == MatchScale

\* A score s is held as s * ScoreScale; the weights are held in hundredths.
ScoreScale == 100 * MatchScale

----------------------------------------------------------------------------
(* FashionItem fields *)

\* if (x.price): present, and not 0
hasPrice(item) == item.price # <<>> /\ item.price[1] # 0

\* if (x.brand): present, and not the empty string
hasBrand(item) == item.brand # <<>> /\ item.brand[1] # <<>>

----------------------------------------------------------------------------
(* FashionRecommendationEngine: profile building *)

\* Map.set(key, (Map.get(key) || 0) + 1) on a Map held in insertion order
freqIncrement(freq, key) ==
    IF \E i \in 1..Len(freq) : freq[i].key = key
    THEN [i \in 1..Len(freq) |->
            IF freq[i].key = key
            THEN [key |-> key, count |-> freq[i].count + 1]
            ELSE freq[i]]
    ELSE Append(freq, [key |-> key, count |-> 1])

RECURSIVE freqFold(_, _)
freqFold(items, freq) ==
    IF items = <<>> THEN freq
    ELSE freqFold(Tail(items), freqIncrement(freq, normalizeText(Head(items))))

_getFrequencyMap(items) == freqFold(items, <<>>)

_getTopN(freqMap, n) ==
    LET sorted == sortDesc(freqMap, [i \in 1..Len(freqMap) |-> freqMap[i].count])
        top == slice0(sorted, n)
    IN  [i \in 1..Len(top) |-> top[i].key]

\* priceRangeOf without the prices.length > 0 test
priceRangeOf_noGuard(prices) ==
    <<[min |-> IF prices = <<>> THEN 0 ELSE minOf(prices),
       max |-> IF prices = <<>> THEN 0 ELSE maxOf(prices)]>>

\* prices.length > 0 ? { min: Math.min(...prices), max: Math.max(...prices) } : undefined
priceRangeOf(prices) ==
    IF Len(prices) > 0
    THEN <<[min |-> minOf(prices), max |-> maxOf(prices)]>>
    ELSE <<>>

_buildStyleProfile(board) ==
    LET pins == board.pins
        allColors == concatAll([i \in 1..Len(pins) |-> pins[i].colors])
        allStyles == concatAll([i \in 1..Len(pins) |-> pins[i].style])
        categories == [i \in 1..Len(pins) |-> pins[i].category]
        brands == concatAll([i \in 1..Len(pins) |->
                      IF hasBrand(pins[i]) THEN pins[i].brand ELSE <<>>])
        prices == concatAll([i \in 1..Len(pins) |->
                      IF hasPrice(pins[i]) THEN pins[i].price ELSE <<>>])
    IN  [dominantColors |-> _getTopN(_getFrequencyMap(allColors), TopColors),
         preferredCategories |-> _getTopN(_getFrequencyMap(categories), TopCategories),
         styleKeywords |-> _getTopN(_getFrequencyMap(allStyles), TopStyles),
         priceRange |-> priceRangeOf(prices),
         favoredBrands |-> _getTopN(_getFrequencyMap(brands), TopBrands)]

----------------------------------------------------------------------------
(* FashionRecommendationEngine: scoring *)

countMatches(itemTags, profileTags) ==
    Len(SelectSeq(itemTags, LAMBDA c : includes(profileTags, c)))

\* _calculateColorMatch that tests only the item's side for emptiness
_calculateColorMatch_noProfileCheck(itemColors, profileColors) ==
    IF Len(itemColors) = 0 THEN Half
    ELSE (countMatches(itemColors, profileColors) * MatchScale)
            \div (IF Len(itemColors) > 1 THEN Len(itemColors) ELSE 1)

_calculateColorMatch(itemColors, profileColors) ==
    IF Len(itemColors) = 0 \/ Len(profileColors) = 0 THEN Half
    ELSE (countMatches(itemColors, profileColors) * MatchScale)
            \div (IF Len(itemColors) > 1 THEN Len(itemColors) ELSE 1)

\* _calculateStyleMatch that gives 0 when either side is empty
_calculateStyleMatch_zeroOnEmpty(itemStyles, profileStyles) ==
    IF Len(itemStyles) = 0 \/ Len(profileStyles) = 0 THEN 0
    ELSE (countMatches(itemStyles, profileStyles) * MatchScale)
            \div (IF Len(itemStyles) > 1 THEN Len(itemStyles) ELSE 1)

_calculateStyleMatch(itemStyles, profileStyles) ==
    IF Len(itemStyles) = 0 \/ Len(profileStyles) = 0 THEN Half
    ELSE (countMatches(itemStyles, profileStyles) * MatchScale)
            \div (IF Len(itemStyles) > 1 THEN Len(itemStyles) ELSE 1)

categoryMatchOf(item, profile) ==
    IF includes(profile.preferredCategories, item.category) THEN One ELSE Half

\* brandMatchOf that gives 0 to an item without a brand
brandMatchOf_zeroWithoutBrand(item, profile) ==
    IF ~hasBrand(item) THEN 0
    ELSE IF includes(profile.favoredBrands, item.brand[1]) THEN One ELSE Half

brandMatchOf(item, profile) ==
    IF hasBrand(item) /\ includes(profile.favoredBrands, item.brand[1])
    THEN One ELSE Half

priceInRange(item, profile) ==
    /\ item.price[1] >= profile.priceRange[1].min
    /\ item.price[1] <= profile.priceRange[1].max

\* the amount the price branch adds to the score
priceTerm(item, profile) ==
    IF hasPrice(item) /\ profile.priceRange # <<>>
    THEN (IF priceInRange(item, profile) THEN One ELSE Half) * PriceWeight
    ELSE (25 * ScoreScale) \div 1000

\* _calculateRecommendationScore that adds the neutral price score without an else
_calculateRecommendationScore_noElse(item, profile) ==
    LET s4 == _calculateColorMatch(item.colors, profile.dominantColors) * ColorWeight
            + _calculateStyleMatch(item.style, profile.styleKeywords) * StyleWeight
            + categoryMatchOf(item, profile) * CategoryWeight
            + brandMatchOf(item, profile) * BrandWeight
        s5 == IF hasPrice(item) /\ profile.priceRange # <<>>
              THEN s4 + (IF priceInRange(item, profile) THEN One ELSE Half) * PriceWeight
              ELSE s4
    IN  s5 + (25 * ScoreScale) \div 1000

\* _calculateRecommendationScore with the colour and style weights exchanged
_calculateRecommendationScore_swappedWeights(item, profile) ==
    _calculateColorMatch(item.colors, profile.dominantColors) * StyleWeight
  + _calculateStyleMatch(item.style, profile.styleKeywords) * ColorWeight
  + categoryMatchOf(item, profile) * CategoryWeight
  + brandMatchOf(item, profile) * BrandWeight
  + priceTerm(item, profile)

_calculateRecommendationScore(item, profile) ==
    LET s0 == 0
        s1 == s0 + _calculateColorMatch(item.colors, profile.dominantColors) * ColorWeight
        s2 == s1 + _calculateStyleMatch(item.style, profile.styleKeywords) * StyleWeight
        s3 == s2 + categoryMatchOf(item, profile) * CategoryWeight
        s4 == s3 + brandMatchOf(item, profile) * BrandWeight
        s5 == s4 + priceTerm(item, profile)
    IN  s5

\* _generateReasons that gives the price reason to every priced item
_generateReasons_priceAlways(item, profile) ==
    LET matchingColors == SelectSeq(item.colors, LAMBDA c : includes(profile.dominantColors, c))
        matchingStyles == SelectSeq(item.style, LAMBDA c : includes(profile.styleKeywords, c))
        r1 == IF Len(matchingColors) > 0
              THEN <<[kind |-> "colors", detail |-> matchingColors]>> ELSE <<>>
        r2 == IF Len(matchingStyles) > 0
              THEN <<[kind |-> "style", detail |-> matchingStyles]>> ELSE <<>>
        r3 == IF includes(profile.preferredCategories, item.category)
              THEN <<[kind |-> "category", detail |-> <<item.category>>]>> ELSE <<>>
        r4 == IF hasBrand(item) /\ includes(profile.favoredBrands, item.brand[1])
              THEN <<[kind |-> "brand", detail |-> <<item.brand[1]>>]>> ELSE <<>>
        r5 == IF hasPrice(item) /\ profile.priceRange # <<>>
              THEN <<[kind |-> "price", detail |-> <<>>]>> ELSE <<>>
    IN  r1 \o r2 \o r3 \o r4 \o r5

_generateReasons(item, profile) ==
    LET matchingColors == SelectSeq(item.colors, LAMBDA c : includes(profile.dominantColors, c))
        matchingStyles == SelectSeq(item.style, LAMBDA c : includes(profile.styleKeywords, c))
        r1 == IF Len(matchingColors) > 0
              THEN <<[kind |-> "colors", detail |-> matchingColors]>> ELSE <<>>
        r2 == IF Len(matchingStyles) > 0
              THEN <<[kind |-> "style", detail |-> matchingStyles]>> ELSE <<>>
        r3 == IF includes(profile.preferredCategories, item.category)
              THEN <<[kind |-> "category", detail |-> <<item.category>>]>> ELSE <<>>
        r4 == IF hasBrand(item) /\ includes(profile.favoredBrands, item.brand[1])
              THEN <<[kind |-> "brand", detail |-> <<item.brand[1]>>]>> ELSE <<>>
        r5 == IF hasPrice(item) /\ profile.priceRange # <<>> /\ priceInRange(item, profile)
              THEN <<[kind |-> "price", detail |-> <<>>]>> ELSE <<>>
    IN  r1 \o r2 \o r3 \o r4 \o r5

scoreItems(catalogItems, profile) ==
    [i \in 1..Len(catalogItems) |->
        [item |-> catalogItems[i],
         score |-> _calculateRecommendationScore(catalogItems[i], profile),
         reasons |-> _generateReasons(catalogItems[i], profile)]]

\* rankItems that truncates before it sorts
rankItems_sliceFirst(catalogItems, profile, limit) ==
    LET scoredItems == slice0(scoreItems(catalogItems, profile), limit)
    IN  sortDesc(scoredItems, [i \in 1..Len(scoredItems) |-> scoredItems[i].score])

\* rankItems without the sort
rankItems_noSort(catalogItems, profile, limit) ==
    slice0(scoreItems(catalogItems, profile), limit)

rankItems(catalogItems, profile, limit) ==
    LET scoredItems == scoreItems(catalogItems, profile)
        sorted == sortDesc(scoredItems, [i \in 1..Len(scoredItems) |-> scoredItems[i].score])
    IN  slice0(sorted, limit)

----------------------------------------------------------------------------
(* Inputs *)

tops == <<"t","o","p","s">>
bottoms == <<"b","o","t","t","o","m","s">>
dresses == <<"d","r","e","s","s","e","s">>
outerwear == <<"o","u","t","e","r","w","e","a","r">>
shoes == <<"s","h","o","e","s">>
accessories == <<"a","c","c","e","s","s","o","r","i","e","s">>

TagKeys == <<<<"a">>, <<"d">>, <<"b">>, <<"c">>, <<"e">>, <<"f">>, <<"g">>, <<"h">>, <<"i">>>>

Pin(cat, colors, style, brand, price) ==
    [category |-> cat, colors |-> colors, style |-> style, brand |-> brand, price |-> price]

\* The pins a board is made of: tags already normalized and not (capitals,
\* padding), brand and price present and absent, a price of 0 and a negative one.
PinPool ==
    { Pin(tops,    << <<"a">>, <<"b">> >>, << <<"a">> >>,      << <<"a">> >>, <<2>>),
      Pin(shoes,   << <<"A">> >>,          << <<" ","b">> >>,  << <<"B">> >>, <<-1>>),
      Pin(dresses, <<>>,                   <<>>,               <<>>,          <<>>),
      Pin(tops,    << <<"b">> >>,          << <<"c">> >>,      << <<"a">> >>, <<0>>) }

\* The items a catalog is made of.
ItemPool ==
    { Pin(tops,        << <<"a">> >>,                 << <<"a">> >>,          << <<"a">> >>, <<2>>),
      Pin(shoes,       SubSeq(TagKeys, 1, MaxItemTags), << <<"d">> >>,        << <<"B">> >>, <<0>>),
      Pin(accessories, <<>>,                          <<>>,                   <<>>,          <<>>),
      Pin(dresses,     << <<"A">> >>,                 << <<"b">>, <<"c">> >>, << <<"b">> >>, <<3>>) }

SeqsUpTo(S, n) == UNION { [1..k -> S] : k \in 0..n }

Boards == { [pins |-> ps] : ps \in SeqsUpTo(PinPool, MaxPins) }
Catalogs == SeqsUpTo(ItemPool, MaxCatalog)

\* limit: absent (the default applies) or an integer
Limits == {<<>>} \cup { <<n>> : n \in -1..MaxLimit }

----------------------------------------------------------------------------
(* Wardrobe gaps *)

\* grouped[item.category].push(item) on an object held in insertion order
groupPush(grouped, item) ==
    IF \E i \in 1..Len(grouped) : grouped[i].key = item.category
    THEN [i \in 1..Len(grouped) |->
            IF grouped[i].key = item.category
            THEN [key |-> grouped[i].key, items |-> Append(grouped[i].items, item)]
            ELSE grouped[i]]
    ELSE Append(grouped, [key |-> item.category, items |-> <<item>>])

RECURSIVE groupFold(_, _)
groupFold(items, grouped) ==
    IF items = <<>> THEN grouped
    ELSE groupFold(Tail(items), groupPush(grouped, Head(items)))

groupByCategory(items) == groupFold(items, <<>>)

allCategories == <<tops, bottoms, dresses, outerwear, shoes, accessories>>

\* grouped[cat]?.length || 0
categoryCountOf(grouped, cat) ==
    IF \E i \in 1..Len(grouped) : grouped[i].key = cat
    THEN Len(grouped[CHOOSE i \in 1..Len(grouped) : grouped[i].key = cat].items)
    ELSE 0

RECURSIVE sumOf(_)
sumOf(arr) == IF arr = <<>> THEN 0 ELSE Head(arr) + sumOf(Tail(arr))

\* avgCount and the counts compared with it are held times GapScale
GapScale == 2 * Len(allCategories)

\* belowHalfAverage that compares with the average itself
belowHalfAverage_belowAverage(count, avgCount) == count * GapScale < avgCount

\* belowHalfAverage that takes a count equal to half the average too
belowHalfAverage_orEqual(count, avgCount) == count * GapScale <= avgCount \div 2

\* (categoryCount.get(cat) || 0) < avgCount * 0.5
belowHalfAverage(count, avgCount) == count * GapScale < avgCount \div 2

\* findWardrobeGapsOn that looks only at the categories the board has pins of
findWardrobeGapsOn_groupedOnly(board) ==
    IF board = <<>> THEN <<>>
    ELSE LET grouped == groupByCategory(board[1].pins)
             categoryCount == [i \in 1..Len(allCategories) |->
                                  categoryCountOf(grouped, allCategories[i])]
             avgCount == (sumOf(categoryCount) * GapScale) \div Len(allCategories)
             flagged == SelectSeq([i \in 1..Len(allCategories) |-> i],
                            LAMBDA i : /\ \E g \in 1..Len(grouped) : grouped[g].key = allCategories[i]
                                       /\ belowHalfAverage(categoryCount[i], avgCount))
         IN  [k \in 1..Len(flagged) |-> allCategories[flagged[k]]]

\* The result of findWardrobeGaps on an engine whose boardData is `board`.
findWardrobeGapsOn(board) ==
    IF board = <<>> THEN <<>>
    ELSE LET grouped == groupByCategory(board[1].pins)
             categoryCount == [i \in 1..Len(allCategories) |->
                                  categoryCountOf(grouped, allCategories[i])]
             avgCount == (sumOf(categoryCount) * GapScale) \div Len(allCategories)
             flagged == SelectSeq([i \in 1..Len(allCategories) |-> i],
                            LAMBDA i : belowHalfAverage(categoryCount[i], avgCount))
         IN  [k \in 1..Len(flagged) |-> allCategories[flagged[k]]]

----------------------------------------------------------------------------
(* FashionRecommendationEngine: state and public methods *)

\* this._buildStyleProfile(board), tabulated once for the boards of Boards
ProfileOf == [board \in Boards |-> _buildStyleProfile(board)]

styleProfileFor(board) ==
    IF board \in Boards THEN ProfileOf[board] ELSE _buildStyleProfile(board)

Init ==
    /\ styleProfile = <<>>
    /\ boardData = <<>>
    /\ analyzed = FALSE
    /\ catalog \in Catalogs
    /\ lastCall = "none"
    /\ argBoard = <<>>
    /\ argLimit = <<>>
    /\ threw = FALSE
    /\ retProfile = <<>>
    /\ retRecs = <<>>
    /\ retGaps = <<>>
    /\ demoPc = "idle"
    /\ utilIdle

\* the guard taking a profile with no dominant colours for a missing one
profileMissing_emptyProfile(profile) ==
    profile = <<>> \/ profile[1].dominantColors = <<>>

\* if (!this.styleProfile): an object, once set, is never falsy
profileMissing(profile) == profile = <<>>

\* The outcome of generateRecommendations on an engine whose styleProfile is
\* `profile`: it throws, or returns the ranked list.
generateRecommendationsOn(profile, catalogItems, limitArg) ==
    LET limit == IF limitArg = <<>> THEN DefaultLimit ELSE limitArg[1]
    IN  IF profileMissing(profile)
        THEN [threw |-> TRUE, recs |-> <<>>]
        ELSE [threw |-> FALSE, recs |-> rankItems(catalogItems, profile[1], limit)]

\* analyzePinterestBoard that adds the board's pins to the ones analyzed before
analyzePinterestBoard_incremental(board) ==
    /\ boardData' = <<board>>
    /\ styleProfile' = <<styleProfileFor(
            [pins |-> (IF boardData = <<>> THEN <<>> ELSE boardData[1].pins) \o board.pins])>>
    /\ retProfile' = styleProfile'
    /\ analyzed' = TRUE
    /\ lastCall' = "analyzePinterestBoard"
    /\ argBoard' = <<board>>
    /\ threw' = FALSE
    /\ retRecs' = <<>>
    /\ retGaps' = <<>>
    /\ UNCHANGED <<catalog, argLimit, demoPc, utilVars>>

\* analyzePinterestBoard that keeps the first board it stored
analyzePinterestBoard_keepsFirstBoard(board) ==
    /\ boardData' = IF boardData = <<>> THEN <<board>> ELSE boardData
    /\ styleProfile' = <<styleProfileFor(board)>>
    /\ retProfile' = styleProfile'
    /\ analyzed' = TRUE
    /\ lastCall' = "analyzePinterestBoard"
    /\ argBoard' = <<board>>
    /\ threw' = FALSE
    /\ retRecs' = <<>>
    /\ retGaps' = <<>>
    /\ UNCHANGED <<catalog, argLimit, demoPc, utilVars>>

analyzePinterestBoard(board) ==
    /\ boardData' = <<board>>
    /\ styleProfile' = <<styleProfileFor(board)>>
    /\ retProfile' = styleProfile'
    /\ analyzed' = TRUE
    /\ lastCall' = "analyzePinterestBoard"
    /\ argBoard' = <<board>>
    /\ threw' = FALSE
    /\ retRecs' = <<>>
    /\ retGaps' = <<>>
    /\ UNCHANGED <<catalog, argLimit, demoPc, utilVars>>

\* generateRecommendations that sorts the array it is given
generateRecommendations_sortsCatalog(catalogItems, limitArg) ==
    LET out == generateRecommendationsOn(styleProfile, catalogItems, limitArg)
        sorted == IF out.threw THEN catalogItems
                  ELSE LET ranked == rankItems(catalogItems, styleProfile[1], Len(catalogItems))
                       IN  [i \in 1..Len(ranked) |-> ranked[i].item]
    IN  /\ lastCall' = "generateRecommendations"
        /\ argBoard' = <<>>
        /\ argLimit' = limitArg
        /\ retProfile' = <<>>
        /\ threw' = out.threw
        /\ retRecs' = out.recs
        /\ retGaps' = <<>>
        /\ catalog' = sorted
        /\ UNCHANGED <<styleProfile, boardData, analyzed, demoPc, utilVars>>

generateRecommendations(catalogItems, limitArg) ==
    LET out == generateRecommendationsOn(styleProfile, catalogItems, limitArg)
    IN  /\ lastCall' = "generateRecommendations"
        /\ argBoard' = <<>>
        /\ argLimit' = limitArg
        /\ retProfile' = <<>>
        /\ threw' = out.threw
        /\ retRecs' = out.recs
        /\ retGaps' = <<>>
        /\ UNCHANGED <<styleProfile, boardData, analyzed, catalog, demoPc, utilVars>>

\* getRecommendations that ranks with the profile an engine already holds
getRecommendations_sharedEngine(board, catalogItems, limitArg) ==
    LET engineProfile == IF styleProfile = <<>> THEN <<styleProfileFor(board)>>
                         ELSE styleProfile
        out == generateRecommendationsOn(engineProfile, catalogItems, limitArg)
    IN  /\ lastCall' = "getRecommendations"
        /\ argBoard' = <<board>>
        /\ argLimit' = limitArg
        /\ retProfile' = <<>>
        /\ threw' = out.threw
        /\ retRecs' = out.recs
        /\ retGaps' = <<>>
        /\ UNCHANGED <<styleProfile, boardData, analyzed, catalog, demoPc, utilVars>>

\* The free function: a new engine analyzes the board, then ranks the catalog.
getRecommendations(board, catalogItems, limitArg) ==
    LET engineProfile == <<styleProfileFor(board)>>
        out == generateRecommendationsOn(engineProfile, catalogItems, limitArg)
    IN  /\ lastCall' = "getRecommendations"
        /\ argBoard' = <<board>>
        /\ argLimit' = limitArg
        /\ retProfile' = <<>>
        /\ threw' = out.threw
        /\ retRecs' = out.recs
        /\ retGaps' = <<>>
        /\ UNCHANGED <<styleProfile, boardData, analyzed, catalog, demoPc, utilVars>>

findWardrobeGaps ==
    /\ lastCall' = "findWardrobeGaps"
    /\ retGaps' = findWardrobeGapsOn(boardData)
    /\ argBoard' = <<>>
    /\ threw' = FALSE
    /\ retProfile' = <<>>
    /\ retRecs' = <<>>
    /\ UNCHANGED <<styleProfile, boardData, analyzed, catalog, argLimit, demoPc, utilVars>>

\* getStyleProfile that has the profile only right after the analysis
getStyleProfile_onlyAfterAnalyze ==
    /\ lastCall' = "getStyleProfile"
    /\ retProfile' = IF lastCall = "analyzePinterestBoard" THEN styleProfile ELSE <<>>
    /\ argBoard' = <<>>
    /\ threw' = FALSE
    /\ retRecs' = <<>>
    /\ retGaps' = <<>>
    /\ UNCHANGED <<styleProfile, boardData, analyzed, catalog, argLimit, demoPc, utilVars>>

getStyleProfile ==
    /\ lastCall' = "getStyleProfile"
    /\ retProfile' = styleProfile
    /\ argBoard' = <<>>
    /\ threw' = FALSE
    /\ retRecs' = <<>>
    /\ retGaps' = <<>>
    /\ UNCHANGED <<styleProfile, boardData, analyzed, catalog, argLimit, demoPc, utilVars>>

Analyze == \E board \in Boards : analyzePinterestBoard(board)

Recommend == \E limitArg \in Limits : generateRecommendations(catalog, limitArg)

\* FashionRecommendationApp.getRecommendations: the free function on the
\* app's current board and catalog.
QuickRecommend ==
    /\ boardData # <<>>
    /\ \E limitArg \in Limits : getRecommendations(boardData[1], catalog, limitArg)

FindGaps == findWardrobeGaps

GetProfile == getStyleProfile

Next == Analyze \/ Recommend \/ QuickRecommend \/ FindGaps

Spec == Init /\ [][Next]_vars

----------------------------------------------------------------------------
(* Properties *)

isRecommendCall == lastCall \in {"generateRecommendations", "getRecommendations"}

\* C1: generateRecommendations throws the 'Style profile not initialized' error
\* exactly when no analyzePinterestBoard call completed earlier on the engine;
\* after any board (a board with zero pins too) no later call throws.
C1_ThrowsIffNotAnalyzed ==
    lastCall = "generateRecommendations" => (threw <=> ~analyzed)

\* a call on an engine that analyzed a board with zero pins returned normally
C1_Witness ==
    /\ lastCall = "generateRecommendations"
    /\ analyzed
    /\ boardData[1].pins = <<>>
    /\ ~threw

\* C2: the score of every returned recommendation lies in [0, 1].
C2_ScoreInUnitInterval ==
    isRecommendCall =>
        \A i \in 1..Len(retRecs) :
            retRecs[i].score >= 0 /\ retRecs[i].score <= ScoreScale

\* a returned list holds a recommendation of score 1 and one below it
C2_Witness ==
    /\ lastCall = "generateRecommendations"
    /\ \E i, j \in 1..Len(retRecs) :
          retRecs[i].score = ScoreScale /\ retRecs[j].score < ScoreScale

\* C3: in every list returned by generateRecommendations and by
\* getRecommendations the scores are non-increasing.
C3_ScoresNonIncreasing ==
    isRecommendCall =>
        \A i, j \in 1..Len(retRecs) :
            i < j => retRecs[i].score >= retRecs[j].score

\* a returned list of two recommendations whose catalog order was ascending
C3_Witness ==
    /\ lastCall = "generateRecommendations"
    /\ Len(retRecs) = 2
    /\ Len(catalog) = 2
    /\ retRecs[1].item = catalog[2]
    /\ retRecs[1].score > retRecs[2].score

\* The recommendations of the last call, with the profile they were scored on.
scoredOnProfile == isRecommendCall /\ ~threw /\ styleProfile # <<>>

Range(arr) == { arr[i] : i \in 1..Len(arr) }

\* matches / length as the claims state it: the item's tags found in the
\* profile's list, over the item's tag count; 0.5 if either side is empty
ratioMatch(itemTags, profileTags) ==
    IF itemTags = <<>> \/ profileTags = <<>> THEN Half
    ELSE (Cardinality({ i \in 1..Len(itemTags) : itemTags[i] \in Range(profileTags) })
             * MatchScale) \div Len(itemTags)

categoryMatchClaimed(item, profile) ==
    IF item.category \in Range(profile.preferredCategories) THEN One ELSE Half

brandMatchClaimed(item, profile) ==
    IF item.brand # <<>> /\ item.brand[1] \in Range(profile.favoredBrands)
    THEN One ELSE Half

\* price component as claimed: 1 inside the range, 0.5 outside it or when the
\* item has no price or the profile no range; a price of 0 is a price
priceMatchClaimed(item, profile) ==
    IF item.price # <<>> /\ profile.priceRange # <<>>
       /\ profile.priceRange[1].min <= item.price[1]
       /\ item.price[1] <= profile.priceRange[1].max
    THEN One ELSE Half

\* C4: the score is 0.30*colorMatch + 0.40*styleMatch + 0.15*categoryMatch
\* + 0.10*brandMatch + 0.05*priceMatch over the item and the current profile,
\* and nothing else enters it.
C4_WeightedSum ==
    scoredOnProfile =>
        \A i \in 1..Len(retRecs) :
            LET item == retRecs[i].item
                profile == styleProfile[1]
            IN  retRecs[i].score =
                    ColorWeight * _calculateColorMatch(item.colors, profile.dominantColors)
                  + StyleWeight * _calculateStyleMatch(item.style, profile.styleKeywords)
                  + CategoryWeight * categoryMatchOf(item, profile)
                  + BrandWeight * brandMatchOf(item, profile)
                  + priceTerm(item, profile)

\* a recommendation whose colour and style components differ was returned
C4_Witness ==
    /\ scoredOnProfile
    /\ \E i \in 1..Len(retRecs) :
          LET item == retRecs[i].item
              profile == styleProfile[1]
          IN  /\ _calculateColorMatch(item.colors, profile.dominantColors) = One
              /\ _calculateStyleMatch(item.style, profile.styleKeywords) = 0
              /\ hasPrice(item) /\ profile.priceRange # <<>>

\* C5: colorMatch and styleMatch are 0.5 when the item has no such tags or the
\* profile's list is empty, and otherwise the number of the item's tags found in
\* the profile's list over the item's tag count; dominant colours {a, b} and
\* item colours [a] give 1.0, a 0.30 share of the score.
C5_RatioMatch ==
    styleProfile # <<>> =>
        \A i \in 1..Len(catalog) :
            LET item == catalog[i]
                profile == styleProfile[1]
            IN  /\ _calculateColorMatch(item.colors, profile.dominantColors)
                     = ratioMatch(item.colors, profile.dominantColors)
                /\ _calculateStyleMatch(item.style, profile.styleKeywords)
                     = ratioMatch(item.style, profile.styleKeywords)
                /\ (profile.dominantColors = << <<"a">>, <<"b">> >> /\ item.colors = << <<"a">> >>)
                     => ColorWeight * _calculateColorMatch(item.colors, profile.dominantColors)
                          = (30 * ScoreScale) \div 100

\* the profile's colours are {a, b}; the catalog holds an item of colours [a]
\* and one of which some but not all colours are in the profile
C5_Witness ==
    /\ scoredOnProfile
    /\ styleProfile[1].dominantColors = << <<"a">>, <<"b">> >>
    /\ \E i, j \in 1..Len(retRecs) :
          /\ retRecs[i].item.colors = << <<"a">> >>
          /\ LET m == ratioMatch(retRecs[j].item.colors, styleProfile[1].dominantColors)
             IN  m > 0 /\ m < One /\ m # Half

\* C6: categoryMatch is 1 if the item's category is in preferredCategories and
\* 0.5 otherwise; brandMatch is 1 if the item has a brand that is in
\* favoredBrands and 0.5 otherwise, also without a brand; neither is ever 0.
C6_CategoryBrandMatch ==
    styleProfile # <<>> =>
        \A i \in 1..Len(catalog) :
            LET item == catalog[i]
                profile == styleProfile[1]
            IN  /\ categoryMatchOf(item, profile) = categoryMatchClaimed(item, profile)
                /\ brandMatchOf(item, profile) = brandMatchClaimed(item, profile)
                /\ categoryMatchOf(item, profile) # 0
                /\ brandMatchOf(item, profile) # 0

\* scored: an item of a preferred category and favoured brand, next to an item
\* without a brand whose category is not preferred
C6_Witness ==
    /\ scoredOnProfile
    /\ \E i, j \in 1..Len(retRecs) :
          /\ categoryMatchOf(retRecs[i].item, styleProfile[1]) = One
          /\ brandMatchOf(retRecs[i].item, styleProfile[1]) = One
          /\ retRecs[j].item.brand = <<>>
          /\ categoryMatchOf(retRecs[j].item, styleProfile[1]) = Half

\* C7: the price component adds 0.05 when the item has a price (0 included)
\* inside the profile's range, 0.025 when the price is outside it, and 0.025
\* when the item has no price or the profile no range.
C7_PriceComponent ==
    scoredOnProfile =>
        \A i \in 1..Len(retRecs) :
            LET item == retRecs[i].item
                profile == styleProfile[1]
                others == ColorWeight * _calculateColorMatch(item.colors, profile.dominantColors)
                        + StyleWeight * _calculateStyleMatch(item.style, profile.styleKeywords)
                        + CategoryWeight * categoryMatchOf(item, profile)
                        + BrandWeight * brandMatchOf(item, profile)
            IN  retRecs[i].score - others = PriceWeight * priceMatchClaimed(item, profile)

\* C8: a board with zero pins gives a profile with four empty lists and no
\* price range, and analyzePinterestBoard raises no error.
C8_EmptyBoardProfile ==
    (lastCall = "analyzePinterestBoard" /\ boardData[1].pins = <<>>) =>
        /\ ~threw
        /\ retProfile # <<>>
        /\ retProfile[1].dominantColors = <<>>
        /\ retProfile[1].styleKeywords = <<>>
        /\ retProfile[1].preferredCategories = <<>>
        /\ retProfile[1].favoredBrands = <<>>
        /\ retProfile[1].priceRange = <<>>

\* a board with zero pins was analyzed
C8_Witness ==
    /\ lastCall = "analyzePinterestBoard"
    /\ boardData[1].pins = <<>>
    /\ styleProfile = retProfile

pinPrices(board) ==
    { board.pins[i].price[1] : i \in { k \in 1..Len(board.pins) : board.pins[k].price # <<>> } }

\* C9: priceRange is absent exactly when no pin has a price; otherwise min and
\* max are the least and greatest price over the pins that have one, a price
\* being any non-negative number, 0 included.
C9_PriceRangeMinMax ==
    (lastCall = "analyzePinterestBoard" /\ \A p \in pinPrices(boardData[1]) : p >= 0) =>
        LET prices == pinPrices(boardData[1])
            range == retProfile[1].priceRange
        IN  /\ (range = <<>>) <=> (prices = {})
            /\ range # <<>> =>
                  /\ range[1].min \in prices /\ \A p \in prices : range[1].min <= p
                  /\ range[1].max \in prices /\ \A p \in prices : range[1].max >= p

\* C16: generateRecommendations returns at most max(limit, 0) recommendations
\* for every integer limit, min(limit, catalog length) of them when
\* limit >= 0, and takes limit as 10 when none is given.
C16_LimitIsMaximum ==
    (lastCall = "generateRecommendations" /\ ~threw) =>
        LET limit == IF argLimit = <<>> THEN 10 ELSE argLimit[1]
        IN  /\ Len(retRecs) <= (IF limit > 0 THEN limit ELSE 0)
            /\ limit >= 0 =>
                  Len(retRecs) = (IF limit < Len(catalog) THEN limit ELSE Len(catalog))

reasonKinds(rec) == { rec.reasons[k].kind : k \in 1..Len(rec.reasons) }

\* what the price branch added to a recommendation's score
priceContribution(rec, profile) ==
    rec.score
      - ColorWeight * ratioMatch(rec.item.colors, profile.dominantColors)
      - StyleWeight * ratioMatch(rec.item.style, profile.styleKeywords)
      - CategoryWeight * categoryMatchClaimed(rec.item, profile)
      - BrandWeight * brandMatchClaimed(rec.item, profile)

\* C17: a recommendation has the category reason iff its categoryMatch is 1,
\* the brand reason iff its brandMatch is 1, the price reason iff the price
\* branch added 0.05 to its score, the colour reason iff one of the item's
\* colours is a dominant colour and the style reason iff one of its styles is a
\* style keyword; score and reasons follow from the item and the profile alone.
C17_ReasonsFollowScore ==
    scoredOnProfile =>
        LET profile == styleProfile[1]
        IN  /\ \A i \in 1..Len(retRecs) :
                  LET rec == retRecs[i]
                      kinds == reasonKinds(rec)
                  IN  /\ "category" \in kinds <=> categoryMatchClaimed(rec.item, profile) = One
                      /\ "brand" \in kinds <=> brandMatchClaimed(rec.item, profile) = One
                      /\ "price" \in kinds <=> priceContribution(rec, profile) = PriceWeight * One
                      /\ "colors" \in kinds <=>
                            Range(rec.item.colors) \cap Range(profile.dominantColors) # {}
                      /\ "style" \in kinds <=>
                            Range(rec.item.style) \cap Range(profile.styleKeywords) # {}
                      /\ kinds \subseteq {"colors", "style", "category", "brand", "price"}
                      /\ Len(rec.reasons) = Cardinality(kinds)
            /\ \A i, j \in 1..Len(retRecs) :
                  retRecs[i].item = retRecs[j].item =>
                      /\ retRecs[i].score = retRecs[j].score
                      /\ retRecs[i].reasons = retRecs[j].reasons

\* a recommendation with all five reasons was returned with one that has none
C17_Witness ==
    /\ scoredOnProfile
    /\ \E i, j \in 1..Len(retRecs) :
          /\ Len(retRecs[i].reasons) = 5
          /\ retRecs[j].reasons = <<>>
    /\ styleProfile[1].priceRange # <<>>

\* C18: against the profile of a board with no pins, generateRecommendations
\* does not throw and gives every item, whatever its tags, brand and price, a
\* score of exactly 0.5 and no reasons.
C18_NeutralOnEmptyBoard ==
    (isRecommendCall /\ boardData # <<>> /\ boardData[1].pins = <<>>) =>
        /\ ~threw
        /\ \A i \in 1..Len(retRecs) :
              /\ 2 * retRecs[i].score = ScoreScale
              /\ retRecs[i].reasons = <<>>

\* two items, one with colours, styles, a brand and a price and one with
\* none of them, were scored by generateRecommendations on the profile of a
\* board with no pins
C18_Witness ==
    /\ lastCall = "generateRecommendations"
    /\ boardData # <<>> /\ boardData[1].pins = <<>>
    /\ Len(retRecs) = 2
    /\ \E i, j \in 1..Len(retRecs) :
          /\ retRecs[i].item.colors # <<>> /\ retRecs[i].item.style # <<>>
          /\ hasBrand(retRecs[i].item) /\ hasPrice(retRecs[i].item)
          /\ retRecs[j].item.colors = <<>> /\ retRecs[j].item.brand = <<>>

----------------------------------------------------------------------------
(* Profile building on longer boards *)

\* Six pins of six categories and six brands; their colours hold six keys and
\* their styles nine, some of them written with capitals or padding.
ProfilePinPool ==
    { Pin(tops,        << <<"a">> >>,          << <<"a">>, <<"b">> >>,     << <<"a">> >>, <<>>),
      Pin(bottoms,     << <<"A">>, <<"b">> >>, << <<"c">>, <<"d">> >>,     << <<"b">> >>, <<>>),
      Pin(dresses,     << <<"c">> >>,          << <<"e">>, <<"f">> >>,     << <<"C">> >>, <<>>),
      Pin(outerwear,   << <<"d">>, <<"e">> >>, << <<"g">>, <<"h">> >>,     << <<"d">> >>, <<>>),
      Pin(shoes,       << <<"f">> >>,          << <<"i">>, <<" ","a">> >>, << <<"e">> >>, <<>>),
      Pin(accessories, << <<"b">> >>,          << <<"B">> >>,              << <<"f">> >>, <<>>) }

InitProfile ==
    /\ styleProfile = <<>>
    /\ boardData = <<>>
    /\ analyzed = FALSE
    /\ catalog = <<>>
    /\ lastCall = "none"
    /\ argBoard = <<>>
    /\ argLimit = <<>>
    /\ threw = FALSE
    /\ retProfile = <<>>
    /\ retRecs = <<>>
    /\ retGaps = <<>>
    /\ demoPc = "idle"
    /\ utilIdle

\* analyzePinterestBoard on the board analyzed before with one more pin
AnalyzeLonger ==
    LET pins == IF boardData = <<>> THEN <<>> ELSE boardData[1].pins
    IN  /\ Len(pins) < MaxBoardPins
        /\ \E pin \in ProfilePinPool :
              analyzePinterestBoard([pins |-> Append(pins, pin)])

NextProfile == AnalyzeLonger

SpecProfile == InitProfile /\ [][NextProfile]_vars

\* The tags a profile list is counted from, in the order the pins give them.
colorTags(board) == concatAll([i \in 1..Len(board.pins) |-> board.pins[i].colors])
styleTags(board) == concatAll([i \in 1..Len(board.pins) |-> board.pins[i].style])
categoryTags(board) == [i \in 1..Len(board.pins) |-> board.pins[i].category]
brandTags(board) == concatAll([i \in 1..Len(board.pins) |-> board.pins[i].brand])

normalizedTags(tags) == [i \in 1..Len(tags) |-> normalizeText(tags[i])]

\* keys: the normalized tags in pin order; list: the profile's list of them
topNClaimed(list, keys, n) ==
    LET keySet == Range(keys)
        count == [k \in keySet |-> Cardinality({ i \in 1..Len(keys) : keys[i] = k })]
        first == [k \in keySet |->
                    CHOOSE i \in 1..Len(keys) :
                        keys[i] = k /\ \A j \in 1..(i - 1) : keys[j] # k]
    IN  /\ Len(list) <= n
        /\ \A i \in 1..Len(list) : list[i] \in keySet
        /\ \A i, j \in 1..Len(list) :
              i < j =>
                /\ count[list[i]] >= count[list[j]]
                /\ count[list[i]] = count[list[j]] => first[list[i]] < first[list[j]]
        /\ \A k \in keySet \ Range(list) :
              \A i \in 1..Len(list) : count[k] <= count[list[i]]

\* C10: each profile list (colours 5, styles 8, categories 3, brands 5) holds
\* at most N keys in non-increasing order of their frequency among the pins,
\* omits no key counted more often than a kept key, and orders keys of equal
\* count by their first occurrence among the pins.
C10_TopNByFrequency ==
    lastCall = "analyzePinterestBoard" =>
        LET board == boardData[1]
            profile == retProfile[1]
        IN  /\ topNClaimed(profile.dominantColors, normalizedTags(colorTags(board)), 5)
            /\ topNClaimed(profile.styleKeywords, normalizedTags(styleTags(board)), 8)
            /\ topNClaimed(profile.preferredCategories, normalizedTags(categoryTags(board)), 3)
            /\ topNClaimed(profile.favoredBrands, normalizedTags(brandTags(board)), 5)

\* every list is full and has left a key out, and the first colour is a key
\* counted twice that was first seen after another key
C10_Witness ==
    /\ lastCall = "analyzePinterestBoard"
    /\ LET board == boardData[1]
           profile == retProfile[1]
           colors == normalizedTags(colorTags(board))
       IN  /\ Len(profile.dominantColors) = 5
           /\ Cardinality(Range(colors)) > 5
           /\ Len(profile.styleKeywords) = 8
           /\ Cardinality(Range(normalizedTags(styleTags(board)))) > 8
           /\ Len(profile.preferredCategories) = 3
           /\ Cardinality(Range(normalizedTags(categoryTags(board)))) > 3
           /\ Len(profile.favoredBrands) = 5
           /\ Cardinality(Range(normalizedTags(brandTags(board)))) > 5
           /\ Cardinality({ i \in 1..Len(colors) : colors[i] = profile.dominantColors[1] }) = 2
           /\ colors[1] # profile.dominantColors[1]

----------------------------------------------------------------------------
(* Profile building from tags as written *)

MaxRawTags == 3

\* One key written in several ways, and a second key.
RawTags ==
    { <<"a">>, <<"A">>, <<" ","a">>, <<"a","!">>, <<"!"," ","a">>, <<"b">> }

\* A fresh engine analyzes a board of one pin.
AnalyzeTagged ==
    /\ ~analyzed
    /\ \E colors \in SeqsUpTo(RawTags, MaxRawTags), style \in SeqsUpTo(RawTags, 1),
          brand \in SeqsUpTo(RawTags, 1) :
            analyzePinterestBoard([pins |-> <<Pin(tops, colors, style, brand, <<>>)>>])

NextTags == AnalyzeTagged

SpecTags == InitProfile /\ [][NextTags]_vars

\* What is left of a tag when letter case, punctuation and surrounding
\* whitespace are taken away.
tagKeyClaimed(tag) == trim(collapseSpaces(stripSpecial(toLowerCase(tag))))

oneKeyPerTag(list) ==
    /\ \A i \in 1..Len(list) : list[i] = tagKeyClaimed(list[i])
    /\ \A i, j \in 1..Len(list) :
          tagKeyClaimed(list[i]) = tagKeyClaimed(list[j]) => i = j

\* C11: tags that differ only in letter case, surrounding whitespace or
\* punctuation are counted under one key: every profile list holds only
\* normalized keys, and no two of its keys are the same tag written differently.
C11_OneKeyPerTag ==
    lastCall = "analyzePinterestBoard" =>
        LET profile == retProfile[1]
        IN  /\ oneKeyPerTag(profile.dominantColors)
            /\ oneKeyPerTag(profile.styleKeywords)
            /\ oneKeyPerTag(profile.preferredCategories)
            /\ oneKeyPerTag(profile.favoredBrands)

----------------------------------------------------------------------------
(* Wardrobe gaps on boards given by their pin counts *)

MaxPerCategory == 4

categoryPin(cat) == Pin(cat, <<>>, <<>>, <<>>, <<>>)

\* counts[i] pins of the i-th of the six categories a pin can have
boardOfCounts(counts) ==
    [pins |-> concatAll([i \in 1..Len(allCategories) |->
                            [k \in 1..counts[i] |-> categoryPin(allCategories[i])]])]

\* A fresh engine analyzes a board.
AnalyzeCounted ==
    /\ ~analyzed
    /\ \E counts \in [1..Len(allCategories) -> 0..MaxPerCategory] :
          analyzePinterestBoard(boardOfCounts(counts))

NextGaps == AnalyzeCounted \/ FindGaps

SpecGaps == InitProfile /\ [][NextGaps]_vars

pinCount(board, cat) ==
    Cardinality({ i \in 1..Len(board.pins) : board.pins[i].category = cat })

sixCategoryTotal(board) ==
    pinCount(board, tops) + pinCount(board, bottoms) + pinCount(board, dresses)
  + pinCount(board, outerwear) + pinCount(board, shoes) + pinCount(board, accessories)

\* count < (total / 6) / 2
gapClaimed(board, cat) == 12 * pinCount(board, cat) < sixCategoryTotal(board)

C13_ZeroCountIsGap ==
    (lastCall = "findWardrobeGaps" /\ boardData # <<>> /\ Len(boardData[1].pins) > 0) =>
        \A cat \in {tops, bottoms, dresses, outerwear, shoes, accessories} :
            pinCount(boardData[1], cat) = 0 => cat \in Range(retGaps)

\* one category has no pin and the other five have four each: the gaps are
\* that category alone
C13_Witness ==
    /\ lastCall = "findWardrobeGaps"
    /\ boardData # <<>>
    /\ \E cat \in Range(allCategories) :
          /\ pinCount(boardData[1], cat) = 0
          /\ \A other \in Range(allCategories) \ {cat} : pinCount(boardData[1], other) = 4
          /\ retGaps = <<cat>>

----------------------------------------------------------------------------
(* One engine used again and again *)

\* analyzePinterestBoard on a board one pin longer than the board analyzed
\* before, as the engine's first call or after it has generated recommendations
AnalyzeAfterUse ==
    LET pins == IF boardData = <<>> THEN <<>> ELSE boardData[1].pins
    IN  /\ boardData = <<>> \/ lastCall = "generateRecommendations"
        /\ \E board \in Boards :
              /\ Len(board.pins) = Len(pins) + 1
              /\ analyzePinterestBoard(board)

NextHistory == AnalyzeAfterUse \/ Recommend \/ FindGaps \/ GetProfile

SpecHistory == Init /\ [][NextHistory]_vars

\* C14: after analyzePinterestBoard(B) the stored and the returned profile are
\* the profile of B alone, whatever the engine analyzed and generated before.
C14_ProfileOfBoardAlone ==
    lastCall = "analyzePinterestBoard" =>
        /\ boardData = argBoard
        /\ styleProfile = <<_buildStyleProfile(argBoard[1])>>
        /\ retProfile = styleProfile

\* an engine that analyzed a board of one pin and generated recommendations
\* from it has analyzed a board of two pins
C14_Witness ==
    /\ lastCall = "analyzePinterestBoard"
    /\ Len(argBoard[1].pins) = 2
    /\ Len(styleProfile[1].dominantColors) = 2
    /\ styleProfile[1].priceRange # <<>>
    /\ catalog # <<>>

\* C19: generateRecommendations and findWardrobeGaps leave the engine's
\* profile and board, the board's pins and the caller's catalog as they were;
\* analyzePinterestBoard stores the board as it was given and leaves the
\* catalog alone.
C19_ReadOnly ==
    [][ /\ lastCall' \in {"generateRecommendations", "findWardrobeGaps"} =>
              /\ styleProfile' = styleProfile
              /\ boardData' = boardData
              /\ catalog' = catalog
        /\ lastCall' = "analyzePinterestBoard" =>
              /\ boardData' = argBoard'
              /\ catalog' = catalog ]_vars

\* findWardrobeGaps has found gaps on the second board of an engine that
\* generated recommendations from a catalog that is not in ranking order
C19_Witness ==
    /\ lastCall = "findWardrobeGaps"
    /\ retGaps # <<>>
    /\ Len(boardData[1].pins) = 2
    /\ Len(catalog) = 2
    /\ LET ranked == rankItems(catalog, styleProfile[1], Len(catalog))
       IN  [i \in 1..Len(ranked) |-> ranked[i].item] # catalog

----------------------------------------------------------------------------
(* The free function beside an engine in use *)

\* An engine analyzes a board of at most one pin.
AnalyzeOnce ==
    /\ ~analyzed
    /\ \E board \in Boards :
          /\ Len(board.pins) <= 1
          /\ analyzePinterestBoard(board)

\* getRecommendations on any board, whatever the engine holds
QuickAny ==
    /\ lastCall # "getRecommendations"
    /\ \E board \in Boards, limitArg \in Limits : getRecommendations(board, catalog, limitArg)

NextQuick == AnalyzeOnce \/ QuickAny

SpecQuick == Init /\ [][NextQuick]_vars

\* what a fresh engine returns from analyzePinterestBoard(board) followed by
\* generateRecommendations(catalogItems, limitArg)
freshEngineOutcome(board, catalogItems, limitArg) ==
    generateRecommendationsOn(<<_buildStyleProfile(board)>>, catalogItems, limitArg)

\* C15: getRecommendations(board, catalog, limit) never raises and returns the
\* list a fresh engine returns from analyzePinterestBoard(board) followed by
\* generateRecommendations(catalog, limit): its result depends on its
\* arguments alone.
C15_FreeFunctionIsFreshEngine ==
    lastCall = "getRecommendations" =>
        /\ ~threw
        /\ retRecs = freshEngineOutcome(argBoard[1], catalog, argLimit).recs

\* the free function has returned recommendations for a board while an engine
\* holds the profile of another board, under which the catalog ranks otherwise
C15_Witness ==
    /\ lastCall = "getRecommendations"
    /\ retRecs # <<>>
    /\ styleProfile # <<>>
    /\ boardData # argBoard
    /\ generateRecommendationsOn(styleProfile, catalog, argLimit).recs # retRecs

----------------------------------------------------------------------------
(* The demo: FashionRecommendationApp and runDemo *)

\* The fields of its argument that displayStyleProfile takes a member of.
displayedFields == {"dominantColors", "preferredStyles", "categoryDistribution", "favoriteBrands"}

\* displayStyleProfile raises a TypeError when one of them is undefined.
displayStyleProfileThrows(profile) == ~(displayedFields \subseteq DOMAIN profile)

\* FashionRecommendationApp.findWardrobeGaps prints gap.category.toUpperCase()
\* for each gap; a gap is a string, which has no category.
displayGapsThrows(gaps) == Len(gaps) > 0

DemoLimit == 12

demoSteps ==
    <<"idle", "catalogLoaded", "profileDisplayed", "gapsShown", "recommendationsShown",
      "topPicksShown", "budgetShown", "grouped", "budgetFiltered", "complete">>

nextDemoStep(pc) == demoSteps[(CHOOSE i \in 1..Len(demoSteps) : demoSteps[i] = pc) + 1]

\* One statement of runDemo's try block; an error raised by it is caught by
\* the handler, which calls process.exit(1).
runDemoStep ==
    /\ demoPc \notin {"complete", "exit1"}
    /\ UNCHANGED utilVars
    /\ IF demoPc = "catalogLoaded"
       THEN \E board \in Boards :
               /\ boardData' = <<board>>
               /\ styleProfile' = <<styleProfileFor(board)>>
               /\ retProfile' = styleProfile'
               /\ analyzed' = TRUE
               /\ lastCall' = "analyzePinterestBoard"
               /\ argBoard' = <<board>>
               /\ threw' = displayStyleProfileThrows(styleProfile'[1])
               /\ demoPc' = IF threw' THEN "exit1" ELSE nextDemoStep(demoPc)
               /\ UNCHANGED <<catalog, argLimit, retRecs, retGaps>>
       ELSE IF demoPc = "profileDisplayed"
       THEN /\ retGaps' = findWardrobeGapsOn(boardData)
            /\ lastCall' = "findWardrobeGaps"
            /\ threw' = displayGapsThrows(retGaps')
            /\ demoPc' = IF threw' THEN "exit1" ELSE nextDemoStep(demoPc)
            /\ UNCHANGED <<styleProfile, boardData, analyzed, catalog, argBoard, argLimit,
                           retProfile, retRecs>>
       ELSE IF demoPc = "gapsShown"
       THEN LET out == generateRecommendationsOn(<<styleProfileFor(boardData[1])>>,
                                                 catalog, <<DemoLimit>>)
            IN  /\ retRecs' = out.recs
                /\ threw' = out.threw
                /\ lastCall' = "getRecommendations"
                /\ argBoard' = boardData
                /\ argLimit' = <<DemoLimit>>
                /\ demoPc' = IF threw' THEN "exit1" ELSE nextDemoStep(demoPc)
                /\ UNCHANGED <<styleProfile, boardData, analyzed, catalog, retProfile, retGaps>>
       ELSE /\ demoPc' = nextDemoStep(demoPc)
            /\ UNCHANGED <<styleProfile, boardData, analyzed, catalog, lastCall, argBoard,
                           argLimit, threw, retProfile, retRecs, retGaps>>

NextDemo == runDemoStep

SpecDemo == Init /\ [][NextDemo]_vars

\* C20: runDemo goes through its steps to 'DEMO COMPLETE' with no step raising
\* an error: it never enters the handler that exits with status 1.
C20_DemoNeverExits1 == demoPc # "exit1"

----------------------------------------------------------------------------
(* Ranking on a fresh engine *)

NextRank == AnalyzeOnce \/ Recommend

SpecRank == Init /\ [][NextRank]_vars

countIn(arr, x) == Cardinality({ i \in 1..Len(arr) : arr[i] = x })

recItems == [i \in 1..Len(retRecs) |-> retRecs[i].item]

limitGiven == IF argLimit = <<>> THEN 10 ELSE argLimit[1]

\* C21: every recommendation's item is a catalog item, returned no more often
\* than the catalog holds it; every catalog item left out scores no more than
\* the lowest returned score; with limit >= catalog length the returned items
\* are a permutation of the catalog.
C21_TopScoringItems ==
    (lastCall = "generateRecommendations" /\ ~threw) =>
        LET profile == styleProfile[1]
        IN  /\ \A x \in Range(recItems) :
                  /\ x \in Range(catalog)
                  /\ countIn(recItems, x) <= countIn(catalog, x)
            /\ \A x \in Range(catalog) :
                  countIn(recItems, x) < countIn(catalog, x) =>
                      \A i \in 1..Len(retRecs) :
                          _calculateRecommendationScore(x, profile) <= retRecs[i].score
            /\ limitGiven >= Len(catalog) =>
                  /\ Len(retRecs) = Len(catalog)
                  /\ \A x \in Range(catalog) : countIn(recItems, x) = countIn(catalog, x)

\* the one recommendation returned is the second item of the catalog, which
\* scores more than the first, left out
C21_Witness ==
    /\ lastCall = "generateRecommendations"
    /\ ~threw
    /\ Len(catalog) = 2
    /\ Len(retRecs) = 1
    /\ argLimit = <<1>>
    /\ retRecs[1].item = catalog[2]
    /\ _calculateRecommendationScore(catalog[1], styleProfile[1]) < retRecs[1].score

----------------------------------------------------------------------------
(* The stored profile and board over an engine's life *)

\* C22: getStyleProfile returns null before the first analyzePinterestBoard
\* and afterwards the profile the most recent analyzePinterestBoard returned:
\* analyzePinterestBoard stores the profile it returns, no other call changes
\* the stored profile, and getStyleProfile returns the stored one, which is
\* null exactly as long as nothing was analyzed.
C22_ProfileGetter ==
    [][ /\ lastCall' = "analyzePinterestBoard" =>
              /\ retProfile' # <<>>
              /\ styleProfile' = retProfile'
        /\ lastCall' \in {"generateRecommendations", "findWardrobeGaps", "getStyleProfile"} =>
              styleProfile' = styleProfile
        /\ lastCall' = "getStyleProfile" =>
              /\ retProfile' = styleProfile
              /\ retProfile' = <<>> <=> ~analyzed ]_vars

\* getStyleProfile has returned the profile of the second board of an engine
\* that generated recommendations in between, some call after the analysis
C22_Witness ==
    /\ lastCall = "getStyleProfile"
    /\ retProfile # <<>>
    /\ Len(boardData[1].pins) = 2
    /\ retProfile[1].dominantColors # <<>>

\* C23: findWardrobeGaps does not throw and returns the empty list before any
\* board was analyzed, and afterwards the gaps of the stored board, which is
\* the board the stored profile was built from; board and profile are null
\* together.
C23_GapsOfCurrentBoard ==
    /\ boardData = <<>> <=> styleProfile = <<>>
    /\ lastCall = "findWardrobeGaps" =>
          /\ ~threw
          /\ boardData = <<>> => retGaps = <<>>
          /\ boardData # <<>> =>
                /\ retGaps = SelectSeq(<<tops, bottoms, dresses, outerwear, shoes, accessories>>,
                                       LAMBDA cat : gapClaimed(boardData[1], cat))
                /\ styleProfile = <<_buildStyleProfile(boardData[1])>>

\* findWardrobeGaps has reported on the second board an engine analyzed, a
\* board with pins of two categories
C23_Witness ==
    /\ lastCall = "findWardrobeGaps"
    /\ ~threw
    /\ boardData # <<>>
    /\ Len(boardData[1].pins) = 2
    /\ Len(retGaps) = 4

----------------------------------------------------------------------------
(* normalizeText on its own *)

MaxTextLen == 4

\* A lower-case letter, a capital, a digit, a hyphen, a punctuation mark and
\* two kinds of whitespace.
TextChars == {"a", "B", "0", "-", "!", " ", "\t"}

Texts == SeqsUpTo(TextChars, MaxTextLen)

InitNormalize ==
    /\ styleProfile = <<>>
    /\ boardData = <<>>
    /\ analyzed = FALSE
    /\ catalog = <<>>
    /\ lastCall = "none"
    /\ argBoard = <<>>
    /\ argLimit = <<>>
    /\ threw = FALSE
    /\ retProfile = <<>>
    /\ retRecs = <<>>
    /\ retGaps = <<>>
    /\ demoPc = "idle"
    /\ textArg \in Texts
    /\ textRet = <<>>
    /\ wait = 0
    /\ timeout = <<>>
    /\ timers = {}
    /\ now = 0
    /\ calls = <<>>
    /\ invoked = <<>>

\* normalizeText(text) on the given text
NormalizeInput ==
    /\ lastCall = "none"
    /\ textRet' = normalizeText(textArg)
    /\ lastCall' = "normalizeText"
    /\ UNCHANGED <<engineVars, textArg, wait, timeout, timers, now, calls, invoked>>

\* normalizeText on what normalizeText returned
NormalizeResult ==
    /\ lastCall = "normalizeText"
    /\ textArg' = textRet
    /\ textRet' = normalizeText(textRet)
    /\ lastCall' = "normalizeText again"
    /\ UNCHANGED <<engineVars, wait, timeout, timers, now, calls, invoked>>

NextNormalize == NormalizeInput \/ NormalizeResult

SpecNormalize == InitNormalize /\ [][NextNormalize]_vars

\* C24: what normalizeText returns has no capital letter, no whitespace at
\* either end, no character other than a-z, 0-9, space and hyphen, and no two
\* whitespace characters in a row.
C24_NormalizedForm ==
    lastCall = "normalizeText" =>
        /\ \A i \in 1..Len(textRet) :
              /\ textRet[i] \notin {"A", "B", "C"}
              /\ textRet[i] \in LowerLetters \cup Digits \cup {" ", "-"}
        /\ textRet # <<>> => (textRet[1] # " " /\ textRet[Len(textRet)] # " ")
        /\ \A i \in 1..(Len(textRet) - 1) : ~(textRet[i] = " " /\ textRet[i + 1] = " ")

\* C27: normalizeText applied to a result of normalizeText returns it
\* unchanged.
C27_NormalizeIdempotent ==
    lastCall = "normalizeText again" => textRet = textArg

----------------------------------------------------------------------------
(* debounce *)

MaxWait == 2
MaxTime == 4
MaxCalls == 3

CallArgs == {"x", "y"}

\* debounce(func, wait) has returned the debounced function: timeout is null
\* and no timer is pending.
InitDebounce ==
    /\ styleProfile = <<>>
    /\ boardData = <<>>
    /\ analyzed = FALSE
    /\ catalog = <<>>
    /\ lastCall = "none"
    /\ argBoard = <<>>
    /\ argLimit = <<>>
    /\ threw = FALSE
    /\ retProfile = <<>>
    /\ retRecs = <<>>
    /\ retGaps = <<>>
    /\ demoPc = "idle"
    /\ textArg = <<>>
    /\ textRet = <<>>
    /\ wait \in 1..MaxWait
    /\ timeout = <<>>
    /\ timers = {}
    /\ now = 0
    /\ calls = <<>>
    /\ invoked = <<>>

\* clearTimeout(handle): a handle that fired or was cleared is left alone
clearTimeout(pending, handle) == { t \in pending : t.id # handle }

\* the debounced function that sets the new timer beside the old one
debounced_noClear(args) ==
    LET handle == Len(calls) + 1
    IN  /\ Len(calls) < MaxCalls
        /\ timers' = timers \cup {[id |-> handle, due |-> now + wait, args |-> args]}
        /\ timeout' = <<handle>>
        /\ calls' = Append(calls, [at |-> now, args |-> args])
        /\ lastCall' = "debounced"
        /\ UNCHANGED <<engineVars, textArg, textRet, wait, now, invoked>>

\* The debounced function: if (timeout) clearTimeout(timeout);
\* timeout = setTimeout(() => func(...args), wait)
debounced(args) ==
    LET handle == Len(calls) + 1
        pending == IF timeout # <<>> THEN clearTimeout(timers, timeout[1]) ELSE timers
    IN  /\ Len(calls) < MaxCalls
        /\ timers' = pending \cup {[id |-> handle, due |-> now + wait, args |-> args]}
        /\ timeout' = <<handle>>
        /\ calls' = Append(calls, [at |-> now, args |-> args])
        /\ lastCall' = "debounced"
        /\ UNCHANGED <<engineVars, textArg, textRet, wait, now, invoked>>

\* A timer that is due runs its callback, () => func(...args); `seen` is the
\* number of calls made by then.
timerFires ==
    \E t \in timers :
        /\ t.due <= now
        /\ timers' = timers \ {t}
        /\ invoked' = Append(invoked, [at |-> now, args |-> t.args, seen |-> Len(calls)])
        /\ lastCall' = "func"
        /\ UNCHANGED <<engineVars, textArg, textRet, wait, timeout, now, calls>>

\* A millisecond passes; a due timer may run late.
tick ==
    /\ now < MaxTime
    /\ now' = now + 1
    /\ UNCHANGED <<engineVars, lastCall, textArg, textRet, wait, timeout, timers, calls, invoked>>

DebouncedCall == \E args \in CallArgs : debounced(args)

NextDebounce == DebouncedCall \/ timerFires \/ tick

SpecDebounce == InitDebounce /\ [][NextDebounce]_vars

\* the call is the last of its burst: no call follows it within wait ms
lastOfBurst(k) == k = Len(calls) \/ calls[k + 1].at - calls[k].at >= wait

----------------------------------------------------------------------------
(* A pin scored against the profile of its own board *)

\* Pins with one or more colour tags, a style tag, a brand and a positive
\* price, the tags and the brand written as they come.
RoundTripPins ==
    { Pin(tops, colors, <<style>>, <<brand>>, <<1>>) :
        colors \in SeqsUpTo(RawTags, MaxRawTags) \ {<<>>},
        style \in RawTags, brand \in {<<"a">>, <<"A">>} }

\* The catalog holds the one pin.
InitRoundTrip ==
    /\ styleProfile = <<>>
    /\ boardData = <<>>
    /\ analyzed = FALSE
    /\ catalog \in { <<pin>> : pin \in RoundTripPins }
    /\ lastCall = "none"
    /\ argBoard = <<>>
    /\ argLimit = <<>>
    /\ threw = FALSE
    /\ retProfile = <<>>
    /\ retRecs = <<>>
    /\ retGaps = <<>>
    /\ demoPc = "idle"
    /\ utilIdle

\* getRecommendations on the board of that pin and the catalog of that pin
RoundTrip ==
    /\ lastCall = "none"
    /\ getRecommendations([pins |-> catalog], catalog, <<>>)

NextRoundTrip == RoundTrip

SpecRoundTrip == InitRoundTrip /\ [][NextRoundTrip]_vars

\* C26: a pin with 1 to 5 colour tags, 1 to 8 style tags, a brand and a
\* positive price, scored against the profile of the board that holds it
\* alone, gets the score 1.0 and all five reasons.
C26_RoundTripMaximal ==
    lastCall = "getRecommendations" =>
        /\ Len(retRecs) = 1
        /\ retRecs[1].score = ScoreScale
        /\ reasonKinds(retRecs[1]) = {"colors", "style", "category", "brand", "price"}

----------------------------------------------------------------------------
(* Ties and extremes *)

\* the place a stable descending sort gives the i-th catalog item: after every
\* item that scores more and every earlier item that scores the same
stablePlace(scores, i) ==
    1 + Cardinality({ j \in 1..Len(scores) :
                        scores[j] > scores[i] \/ (scores[j] = scores[i] /\ j < i) })

\* C28: catalog items of equal score keep their catalog order in the result
\* of generateRecommendations, which is therefore fixed by the profile and the
\* catalog; cutting the list at limit drops the later of two tied items.
C28_TiesKeepCatalogOrder ==
    (lastCall = "generateRecommendations" /\ ~threw) =>
        LET scores == [i \in 1..Len(catalog) |->
                          _calculateRecommendationScore(catalog[i], styleProfile[1])]
        IN  \A k \in 1..Len(retRecs) :
                \E i \in 1..Len(catalog) :
                    /\ stablePlace(scores, i) = k
                    /\ retRecs[k].item = catalog[i]
                    /\ retRecs[k].score = scores[i]

\* of two different catalog items with the same score the first was
\* returned and the second cut off by limit 1
C28_Witness ==
    /\ lastCall = "generateRecommendations"
    /\ ~threw
    /\ boardData[1].pins # <<>>
    /\ Len(catalog) = 2
    /\ catalog[1] # catalog[2]
    /\ _calculateRecommendationScore(catalog[1], styleProfile[1])
         = _calculateRecommendationScore(catalog[2], styleProfile[1])
    /\ argLimit = <<1>>
    /\ Len(retRecs) = 1
    /\ retRecs[1].item = catalog[1]

\* C29: the result of findWardrobeGaps is a subsequence of the six categories
\* without repetition and with at most five entries, holds no category whose
\* pin count is the largest on the board, and is empty for a board without
\* pins.
C29_NeverEveryCategory ==
    (lastCall = "findWardrobeGaps" /\ boardData # <<>>) =>
        LET board == boardData[1]
            six == <<tops, bottoms, dresses, outerwear, shoes, accessories>>
        IN  /\ Len(retGaps) <= 5
            /\ \E keep \in SUBSET (1..6) :
                  retGaps = SelectSeq(six, LAMBDA cat :
                                \E i \in keep : six[i] = cat)
            /\ \A i, j \in 1..Len(retGaps) : retGaps[i] = retGaps[j] => i = j
            /\ \A cat \in Range(retGaps) :
                  \E other \in Range(six) : pinCount(board, other) > pinCount(board, cat)
            /\ board.pins = <<>> => retGaps = <<>>

\* five categories are gaps: all pins of the board are of the sixth
C29_Witness ==
    /\ lastCall = "findWardrobeGaps"
    /\ boardData # <<>>
    /\ Len(retGaps) = 5
    /\ Len(boardData[1].pins) > 1

====
